---- MODULE Spec2Model ----
(***************************************************************************)
(* A state-machine model of the delta-Eddington two-stream solver of       *)
(* tuv-x: Solve (solve.hh, delta_eddington.hh) and the stages it calls,    *)
(* InitializeVariables, DeltaEddingtonApproximation,                       *)
(* AssembleTridiagonalMatrix, AssembleCoeffcientVector and                 *)
(* ComputeRadiationField (delta_eddington.hh).                             *)
(*                                                                         *)
(* Reading of the source.  The templates are never instantiated and hold   *)
(* expressions that do not type-check; the model reads them as follows.    *)
(*  - An array name used where a scalar is needed inside a loop over i     *)
(*    (omega, R_sfc, lambda at lines 82, 118, 119, 122, 123) is element i. *)
(*  - `mu = (T)0.5` (line 43) assigns the scalar to the whole array: every *)
(*    element of the storage bound to mu becomes 0.5.                      *)
(*  - C_upwelling.start() (lines 214, 221) is the first element.           *)
(*  - References bound to members or map entries write through to the      *)
(*    caller's objects, also where the parameter is declared const or by   *)
(*    value (lines 15, 19-30, 73-75, 95-108, 141-143).                     *)
(*  - The parameter maps hold every key the stages read.                   *)
(*  - number_of_layers is the vertical grid's layer count.                 *)
(*  - assert is compiled in (NDEBUG is not defined): a failed assert       *)
(*    aborts the call.                                                     *)
(* Code indices are 0-based; sequences here are 1-based, so code element n *)
(* is sequence element n + 1.  Index sets are kept 0-based as in the code. *)
(***************************************************************************)
EXTENDS Integers, Sequences, FiniteSets, TLC

(***************************************************************************)
(* The numeric type T: fixed point with Scale units per 1.0, with the IEEE *)
(* special values a division by zero produces.  Signed zero is not kept.   *)
(***************************************************************************)
Scale == 100

MaxColumns == 2

MaxLayers == 3

ExpTerms == 8

M_PI == 314

PInf == 2 ^ 30

NInf == -(2 ^ 30)

NaN == (2 ^ 30) + 1

IsNaN(x) == x = NaN

IsInf(x) == x = PInf \/ x = NInf

Abs(x) == IF x < 0 THEN -x ELSE x

Sgn(x) == IF x = NInf THEN -1 ELSE IF x < 0 THEN -1 ELSE IF x > 0 THEN 1 ELSE 0

InfOfSign(s) == IF s < 0 THEN NInf ELSE PInf

\* integer quotient rounded toward zero
Quot(n, d) == Sgn(n) * Sgn(d) * (Abs(n) \div Abs(d))

\* the literal n of the code as a T
K(n) == n * Scale

FNeg(a) ==
  IF IsNaN(a) THEN NaN
  ELSE IF a = PInf THEN NInf
  ELSE IF a = NInf THEN PInf
  ELSE -a

FAdd(a, b) ==
  IF IsNaN(a) \/ IsNaN(b) THEN NaN
  ELSE IF IsInf(a) THEN (IF IsInf(b) /\ b # a THEN NaN ELSE a)
  ELSE IF IsInf(b) THEN b
  ELSE a + b

FSub(a, b) == FAdd(a, FNeg(b))

FMul(a, b) ==
  IF IsNaN(a) \/ IsNaN(b) THEN NaN
  ELSE IF IsInf(a) \/ IsInf(b)
    THEN (IF Sgn(a) = 0 \/ Sgn(b) = 0 THEN NaN ELSE InfOfSign(Sgn(a) * Sgn(b)))
  ELSE Quot(a * b, Scale)

FDiv(a, b) ==
  IF IsNaN(a) \/ IsNaN(b) THEN NaN
  ELSE IF IsInf(a)
    THEN (IF IsInf(b) THEN NaN ELSE InfOfSign(Sgn(a) * (IF b < 0 THEN -1 ELSE 1)))
  ELSE IF IsInf(b) THEN 0
  ELSE IF b = 0 THEN (IF a = 0 THEN NaN ELSE InfOfSign(Sgn(a)))
  ELSE Quot(a * Scale, b)

RECURSIVE ISqrt(_, _, _)
\* the largest r in lo..hi with r * r <= n (lo * lo <= n < (hi + 1) ^ 2)
ISqrt(n, lo, hi) ==
  IF lo >= hi THEN lo
  ELSE LET mid == (lo + hi + 1) \div 2
       IN IF mid * mid <= n THEN ISqrt(n, mid, hi) ELSE ISqrt(n, lo, mid - 1)

\* std::sqrt
FSqrt(a) ==
  IF IsNaN(a) THEN NaN
  ELSE IF a = PInf THEN PInf
  ELSE IF a < 0 THEN NaN
  ELSE ISqrt(a * Scale, 0, a + Scale)

RECURSIVE ExpSeries(_, _, _, _)
\* 1 + x + x^2/2! + ... to ExpTerms terms
ExpSeries(x, k, term, acc) ==
  IF k > ExpTerms THEN acc
  ELSE LET t == Quot(term * x, k * Scale)
       IN ExpSeries(x, k + 1, t, acc + t)

\* std::exp
FExp(x) ==
  IF IsNaN(x) THEN NaN
  ELSE IF x = PInf THEN PInf
  ELSE IF x = NInf THEN 0
  ELSE ExpSeries(x, 1, Scale, Scale)

\* std::acos, tabulated at the sampled arguments, linear elsewhere in [-1, 1]
FAcos(x) ==
  IF IsNaN(x) \/ IsInf(x) THEN NaN
  ELSE IF x > Scale \/ x < -Scale THEN NaN
  ELSE IF x = Scale THEN 0
  ELSE IF x = 54 THEN 100
  ELSE IF x = 50 THEN 105
  ELSE IF x = 0 THEN 157
  ELSE IF x = -Scale THEN M_PI
  ELSE 157 - x

Fill(n, v) == [k \in 1..n |-> v]

(***************************************************************************)
(* State                                                                   *)
(***************************************************************************)
VARIABLES
  solar_zenith_angles,        \* Solve's argument, one per column
  grids,                      \* what Solve reads of the two grids
  accumulated_radiator_state, \* optical_depth_, single_scattering_albedo_, assymetry_parameter_
  solution_parameters,        \* key -> array
  source_terms,               \* key -> array
  locals,                     \* f, tau_cumulative, mu_0, exponential_term, denominator_term
  coeffcient_matrix,          \* lower_diagonal_, main_diagonal_, upper_diagonal_
  coeffcient_vector,
  radiation_field,            \* the six output arrays
  pc,                         \* position in Solve
  i,                          \* loop index of InitializeVariables (1-based)
  i_dea,                      \* loop index of DeltaEddingtonApproximation (1-based)
  call,                       \* which call of Solve by the caller: 1 or 2
  error,                      \* how the call ended abnormally, if it did
  caller_inputs,              \* the objects as the caller supplied them
  first_call,                 \* what the first call left, kept by the caller
  scaling_log,                \* what the last delta-scaling iteration read and assigned
  approximation_log,          \* what the last approximation iteration computed
  assembly_log                \* the indices the assemblers used and the rows they assigned

vars ==
  << solar_zenith_angles, grids, accumulated_radiator_state, solution_parameters,
     source_terms, locals, coeffcient_matrix, coeffcient_vector, radiation_field,
     pc, i, i_dea, call, error, caller_inputs, first_call, scaling_log,
     approximation_log, assembly_log >>

number_of_columns == Len(solar_zenith_angles)

number_of_layers == grids.layers

\* sampled values of the inputs, as T
TauVals == {50}

OmegaVals == {50, 90}

GVals == {80}

SzaVals == {54, 100}

PriorVals == {0, Scale}

ColumnInputs == [tau : TauVals, omega : OmegaVals, g : GVals, sza : SzaVals]

ParameterKeys ==
  {"gamma1", "gamma2", "gamma3", "gamma4", "mu", "lambda",
   "infrared source flux", "solar source flux", "source flux"}

LayerKeys == {"e1", "e2", "e3", "e4"}

SourceKeys == {"C_upwelling", "C_downwelling"}

FieldKeys ==
  {"irradiance_direct", "irradiance_upwelling", "irradiance_downwelling",
   "actinic_direct", "actinic_upwelling", "actinic_downwelling"}

\* first value written to each output array
FieldOffsets ==
  [irradiance_direct |-> 42, irradiance_upwelling |-> 93, irradiance_downwelling |-> 52,
   actinic_direct |-> 5, actinic_upwelling |-> 24, actinic_downwelling |-> 97]

\* the scalars AssembleTridiagonalMatrix and AssembleCoeffcientVector read
solver_parameters == [Surface_Reflectivity |-> 10, source_flux |-> Scale]

\* the eigen-coefficient arrays the assemblers read, one entry per layer
LayerArray(key, n) ==
  LET base == CASE key = "e1" -> 110 [] key = "e2" -> 20 [] key = "e3" -> 30 [] OTHER -> 40
  IN [k \in 1..n |-> base + k]

InitialParameters(nc, nl, prior) ==
  [key \in ParameterKeys \cup LayerKeys |->
     IF key \in LayerKeys THEN LayerArray(key, nl)
     ELSE IF key = "source flux" THEN Fill(nc, Scale)
     ELSE Fill(nc, prior)]

InitialSourceTerms(nc, prior) == [key \in SourceKeys |-> Fill(nc, prior)]

\* one entry per layer boundary and column, column-major
InitialField(nc, nl) == [key \in FieldKeys |-> Fill(nc * (nl + 1), 0)]

NoLocals ==
  [f |-> 0, tau_cumulative |-> 0, mu_0 |-> 0, exponential_term |-> 0, denominator_term |-> 0]

NoMatrix == [lower_diagonal_ |-> << >>, main_diagonal_ |-> << >>, upper_diagonal_ |-> << >>]

NoScalingLog == [index |-> 0]

NoApproximationLog == [index |-> 0]

NoAssemblyLog == [stage |-> "none"]

NoFirstCall == [returned |-> FALSE]

RadiatorOf(cols) ==
  [optical_depth_ |-> [k \in 1..Len(cols) |-> cols[k].tau],
   single_scattering_albedo_ |-> [k \in 1..Len(cols) |-> cols[k].omega],
   assymetry_parameter_ |-> [k \in 1..Len(cols) |-> cols[k].g]]

Init ==
  \E nc \in 1..MaxColumns, nl \in 1..MaxLayers, prior \in PriorVals :
    \E cols \in [1..nc -> ColumnInputs], vc \in {nc, nc + 1}, wc \in {1, 2} :
      /\ solar_zenith_angles = [k \in 1..nc |-> cols[k].sza]
      /\ grids = [vertical_columns |-> vc, wavelength_columns |-> wc, layers |-> nl]
      /\ accumulated_radiator_state = RadiatorOf(cols)
      /\ caller_inputs =
           [accumulated_radiator_state |-> RadiatorOf(cols),
            solution_parameters |-> InitialParameters(nc, nl, prior),
            source_terms |-> InitialSourceTerms(nc, prior),
            radiation_field |-> InitialField(nc, nl)]
      /\ solution_parameters = InitialParameters(nc, nl, prior)
      /\ source_terms = InitialSourceTerms(nc, prior)
      /\ locals = NoLocals
      /\ coeffcient_matrix = NoMatrix
      /\ coeffcient_vector = << >>
      /\ radiation_field = InitialField(nc, nl)
      /\ pc = "Solve"
      /\ i = 0
      /\ i_dea = 0
      /\ call = 1
      /\ error = "none"
      /\ first_call = NoFirstCall
      /\ scaling_log = NoScalingLog
      /\ approximation_log = NoApproximationLog
      /\ assembly_log = NoAssemblyLog

(***************************************************************************)
(* Solve: the precondition checks and the allocation of the system         *)
(***************************************************************************)
\* the precondition with the wavelength-grid assert left out
GridsConsistentColumnsOnly == grids.vertical_columns = number_of_columns

\* the two asserts of Solve and of InitializeVariables
GridsConsistent ==
  /\ grids.vertical_columns = number_of_columns
  /\ grids.wavelength_columns = 1

\* TridiagonalMatrix<T> coeffcient_matrix(number_of_columns, 0)
AllocatedRows == number_of_columns

SolveBegin ==
  /\ pc = "Solve"
  /\ IF GridsConsistent
       THEN /\ coeffcient_matrix' =
                 [lower_diagonal_ |-> Fill(AllocatedRows, 0),
                  main_diagonal_ |-> Fill(AllocatedRows, 0),
                  upper_diagonal_ |-> Fill(AllocatedRows, 0)]
            /\ coeffcient_vector' = Fill(AllocatedRows, 0)
            /\ pc' = "InitializeVariables"
            /\ error' = error
       ELSE /\ pc' = "aborted"
            /\ error' = "assertion"
            /\ UNCHANGED << coeffcient_matrix, coeffcient_vector >>
  /\ UNCHANGED << solar_zenith_angles, grids, accumulated_radiator_state,
                  solution_parameters, source_terms, locals, radiation_field, i, i_dea,
                  call, caller_inputs, first_call, scaling_log, approximation_log,
                  assembly_log >>

(***************************************************************************)
(* InitializeVariables: delta scaling (lines 77-85)                        *)
(***************************************************************************)
\* an assignment to element k of array `name`, which read the arrays `reads`
Store(s, name, k, v, reads) ==
  [s EXCEPT ![name][k] = v,
            !.count[name] = @ + 1,
            !.stale = @ \/ (reads \cap s.written # {}),
            !.written = @ \cup {name}]

\* f = omega[i] * omega[i]
ScalingLine81(s, k) == [s EXCEPT !.f = FMul(s.omega[k], s.omega[k])]

\* omega[i] = (omega - f) / (1 - f)
ScalingLine82(s, k) ==
  Store(s, "omega", k, FDiv(FSub(s.omega[k], s.f), FSub(K(1), s.f)), {"omega"})

\* g[i] = (1 - f) * g[i] / (1 - g[i] * f)
ScalingLine83(s, k) ==
  Store(s, "g", k,
        FDiv(FMul(FSub(K(1), s.f), s.g[k]), FSub(K(1), FMul(s.g[k], s.f))), {"g"})

\* omega[i] = (1 - g[i] * f) * omega[i]
ScalingLine84(s, k) ==
  Store(s, "omega", k, FMul(FSub(K(1), FMul(s.g[k], s.f)), s.omega[k]), {"g", "omega"})

\* the references of lines 73-75 and the local f, before an iteration
ScalingView(ars, f) ==
  [tau |-> ars.optical_depth_,
   omega |-> ars.single_scattering_albedo_,
   g |-> ars.assymetry_parameter_,
   f |-> f,
   count |-> [name \in {"tau", "omega", "g"} |-> 0],
   written |-> {},
   stale |-> FALSE]

\* one iteration of the delta-scaling loop
DeltaScalingIteration(s, k) ==
  ScalingLine84(ScalingLine83(ScalingLine82(ScalingLine81(s, k), k), k), k)

RadiatorOfView(s) ==
  [optical_depth_ |-> s.tau,
   single_scattering_albedo_ |-> s.omega,
   assymetry_parameter_ |-> s.g]

RECURSIVE DeltaScalingFrom(_, _, _)
\* iterations k .. number_of_columns of the loop
DeltaScalingFrom(ars, f, k) ==
  IF k > Len(ars.optical_depth_) THEN ars
  ELSE LET s == DeltaScalingIteration(ScalingView(ars, f), k)
       IN DeltaScalingFrom(RadiatorOfView(s), s.f, k + 1)

\* lines 63-70: the asserts hold here, Solve has made the same checks
InitializeVariablesBegin ==
  /\ pc = "InitializeVariables"
  /\ IF GridsConsistent
       THEN pc' = "delta_scaling" /\ error' = error
       ELSE pc' = "aborted" /\ error' = "assertion"
  /\ i' = 1
  /\ UNCHANGED << solar_zenith_angles, grids, accumulated_radiator_state,
                  solution_parameters, source_terms, locals, coeffcient_matrix,
                  coeffcient_vector, radiation_field, i_dea, call, caller_inputs,
                  first_call, scaling_log, approximation_log, assembly_log >>

\* one iteration of lines 79-85; after the last one the loop over tau (lines
\* 88-91) assigns every element to itself and the source-term block begins
DeltaScaling ==
  /\ pc = "delta_scaling"
  /\ i <= number_of_columns
  /\ LET s0 == ScalingView(accumulated_radiator_state, locals.f)
         s1 == DeltaScalingIteration(s0, i)
     IN /\ accumulated_radiator_state' = RadiatorOfView(s1)
        /\ scaling_log' =
             [index |-> i,
              f |-> s1.f,
              before |-> [tau |-> s0.tau[i], omega |-> s0.omega[i], g |-> s0.g[i]],
              after |-> [tau |-> s1.tau[i], omega |-> s1.omega[i], g |-> s1.g[i]],
              count |-> s1.count,
              stale |-> s1.stale]
        /\ IF i = number_of_columns
             THEN /\ pc' = "source_terms"
                  /\ i' = 1
                  /\ locals' = [locals EXCEPT !.f = s1.f, !.tau_cumulative = 0]
             ELSE /\ pc' = pc
                  /\ i' = i + 1
                  /\ locals' = [locals EXCEPT !.f = s1.f]
  /\ UNCHANGED << solar_zenith_angles, grids, solution_parameters, source_terms,
                  coeffcient_matrix, coeffcient_vector, radiation_field, i_dea, call,
                  error, caller_inputs, first_call, approximation_log, assembly_log >>

(***************************************************************************)
(* InitializeVariables: source terms (lines 93-127)                        *)
(***************************************************************************)
\* the memory the source-term loop works on
SourceView(ars, sp, st, lc) ==
  [tau |-> ars.optical_depth_,
   omega |-> ars.single_scattering_albedo_,
   sp |-> sp,
   st |-> st,
   lc |-> lc]

\* one iteration of lines 115-126, for column k with zenith angle sza, S_sfc_s
\* being bound to the map entry solar_key
SourceTermIterationWith(m, k, sza, solar_key) ==
  LET R_sfc == m.sp["source flux"][k]
      lambda == m.sp["lambda"][k]
      gamma1 == m.sp["gamma1"][k]
      gamma2 == m.sp["gamma2"][k]
      gamma3 == m.sp["gamma3"][k]
      gamma4 == m.sp["gamma4"][k]
      mu_0 == FAcos(sza)
      exponential_term ==
        FMul(FMul(FMul(m.omega[k], M_PI), R_sfc),
             FExp(FDiv(FNeg(FSub(m.lc.tau_cumulative, m.tau[k])), mu_0)))
      denominator_term == FSub(FMul(lambda, lambda), FDiv(K(1), FMul(mu_0, mu_0)))
      tau_cumulative == FAdd(m.lc.tau_cumulative, m.tau[k])
      S_sfc_i == FMul(FMul(R_sfc, mu_0), FExp(FDiv(FNeg(tau_cumulative), mu_0)))
      S_sfc_s == FMul(M_PI, R_sfc)
      C_downwelling ==
        FMul(exponential_term,
             FAdd(FMul(FDiv(FAdd(gamma1, K(1)), mu_0), gamma4), FMul(gamma2, gamma3)))
      C_upwelling ==
        FMul(exponential_term,
             FAdd(FMul(FDiv(FSub(gamma1, K(1)), mu_0), gamma3), FMul(gamma4, gamma2)))
  IN [m EXCEPT
        !.sp["infrared source flux"][k] = S_sfc_i,
        !.sp[solar_key][k] = S_sfc_s,
        !.st["C_downwelling"][k] = C_downwelling,
        !.st["C_upwelling"][k] = C_upwelling,
        !.lc = [@ EXCEPT !.mu_0 = mu_0,
                         !.exponential_term = exponential_term,
                         !.denominator_term = denominator_term,
                         !.tau_cumulative = tau_cumulative]]

\* the loop with S_sfc_s bound to the entry of gamma1
SourceTermIterationIntoGamma1(m, k, sza) == SourceTermIterationWith(m, k, sza, "gamma1")

\* S_sfc_s is solution_parameters.at("solar source flux") (line 98)
SourceTermIteration(m, k, sza) ==
  SourceTermIterationWith(m, k, sza, "solar source flux")

SourceTerms ==
  /\ pc = "source_terms"
  /\ i <= number_of_columns
  /\ LET m == SourceTermIteration(
                SourceView(accumulated_radiator_state, solution_parameters,
                           source_terms, locals),
                i, solar_zenith_angles[i])
     IN /\ solution_parameters' = m.sp
        /\ source_terms' = m.st
        /\ locals' = m.lc
  /\ IF i = number_of_columns
       THEN pc' = "DeltaEddingtonApproximation" /\ i_dea' = 1
       ELSE pc' = pc /\ i_dea' = i_dea
  /\ i' = i + 1
  /\ UNCHANGED << solar_zenith_angles, grids, accumulated_radiator_state,
                  coeffcient_matrix, coeffcient_vector, radiation_field, call, error,
                  caller_inputs, first_call, scaling_log, approximation_log,
                  assembly_log >>

(***************************************************************************)
(* DeltaEddingtonApproximation (lines 13-45)                               *)
(***************************************************************************)
\* the map entries the references mu, lambda and Gamma are bound to
MuKey == "mu"

LambdaKey == "mu"

GammaKey == "mu"

\* the members the references omega and g are bound to (lines 19, 20)
ApproximationView(ars, sp) ==
  [omega |-> ars.optical_depth_,
   g |-> ars.single_scattering_albedo_,
   sp |-> sp]

\* one iteration of lines 34-44, for column k with zenith angle sza
ApproximationIteration(m, k, sza) ==
  LET mu_0 == FAcos(sza)
      gamma1 == FSub(K(7), FMul(m.omega[k], FAdd(K(4), FMul(K(3), m.g[k]))))
      gamma2 ==
        FDiv(FNeg(FSub(K(1), FMul(m.omega[k], FSub(K(4), FMul(K(3), m.g[k]))))), K(4))
      gamma3 == FDiv(FSub(K(2), FMul(FMul(K(3), m.g[k]), mu_0)), K(4))
      root == FSqrt(FSub(FMul(gamma1, gamma1), FMul(gamma2, gamma2)))
      sp1 == [m.sp EXCEPT !["gamma1"][k] = gamma1,
                          !["gamma2"][k] = gamma2,
                          !["gamma3"][k] = gamma3]
      sp2 == [sp1 EXCEPT ![LambdaKey][k] = root]
      sp3 == [sp2 EXCEPT ![GammaKey][k] = root]
      sp4 == [sp3 EXCEPT ![MuKey] = Fill(Len(@), Scale \div 2)]
  IN [m EXCEPT !.sp = sp4]

DeltaEddingtonApproximation ==
  /\ pc = "DeltaEddingtonApproximation"
  /\ i_dea <= number_of_columns
  /\ solution_parameters' =
       ApproximationIteration(
         ApproximationView(accumulated_radiator_state, solution_parameters),
         i_dea, solar_zenith_angles[i_dea]).sp
  /\ approximation_log' = [index |-> i_dea]
  /\ pc' = IF i_dea = number_of_columns THEN "AssembleTridiagonalMatrix" ELSE pc
  /\ i_dea' = i_dea + 1
  /\ UNCHANGED << solar_zenith_angles, grids, accumulated_radiator_state, source_terms,
                  locals, coeffcient_matrix, coeffcient_vector, radiation_field, i,
                  call, error, caller_inputs, first_call, scaling_log, assembly_log >>

(***************************************************************************)
(* AssembleTridiagonalMatrix (lines 130-180) and AssembleCoeffcientVector  *)
(* (lines 182-226).  An access outside its array is undefined behaviour:   *)
(* the call either ends in a crash, or goes on, a read then giving an      *)
(* arbitrary value and a write not landing in the array.                   *)
(***************************************************************************)
Garbage == {-Scale, NaN}

Outcomes(out_of_bounds) ==
  IF out_of_bounds
    THEN {[crash |-> TRUE, garbage |-> 0]}
           \cup {[crash |-> FALSE, garbage |-> gv] : gv \in Garbage}
    ELSE {[crash |-> FALSE, garbage |-> 0]}

\* element n (0-based) of arr
At0(arr, n, gv) == IF n + 1 \in 1..Len(arr) THEN arr[n + 1] ELSE gv

\* std::size_t matrix_size = 2 * number_of_layers
MatrixSize(nl) == 2 * nl

\* for (n = 1; n < matrix_size - 1; n += 2)
OddRows(matrix_size) == {n \in 1..(matrix_size - 2) : n % 2 = 1}

\* for (n = 2; n < matrix_size - 2; n += 2)
EvenRows(matrix_size) == {n \in 2..(matrix_size - 3) : n % 2 = 0}

\* the indices at which the matrix assembler reads e1..e4, of length len
MatrixReadIndices(matrix_size, len) ==
  {0, len - 1}
    \cup UNION {{n, n + 1} : n \in OddRows(matrix_size) \cup EvenRows(matrix_size)}

\* the indices at which it writes each of the three diagonals, of length len
MatrixWriteIndices(matrix_size, len) ==
  {0, len - 1} \cup OddRows(matrix_size) \cup EvenRows(matrix_size)

\* how many of its statements assign element n of a diagonal of length len
MatrixRowWrites(matrix_size, len, n) ==
  IF n >= len THEN 0
  ELSE (IF n = 0 THEN 1 ELSE 0) + (IF n \in OddRows(matrix_size) THEN 1 ELSE 0)
       + (IF n \in EvenRows(matrix_size) THEN 1 ELSE 0) + (IF n = len - 1 THEN 1 ELSE 0)

\* the three diagonals after the call
AssembleMatrix(nl, sp, R_sfc, cm, gv) ==
  LET ms == MatrixSize(nl)
      e1(n) == At0(sp["e1"], n, gv)
      e2(n) == At0(sp["e2"], n, gv)
      e3(n) == At0(sp["e3"], n, gv)
      e4(n) == At0(sp["e4"], n, gv)
      back == Len(sp["e1"]) - 1
      Row(old, first, odd(_), even(_), last) ==
        [r \in 1..Len(old) |->
           LET n == r - 1
           IN IF n = Len(old) - 1 THEN last
              ELSE IF n \in EvenRows(ms) THEN even(n)
              ELSE IF n \in OddRows(ms) THEN odd(n)
              ELSE IF n = 0 THEN first
              ELSE old[r]]
      oddU(n) == FSub(FMul(e2(n + 1), e1(n)), FMul(e3(n), e4(n + 1)))
      oddM(n) == FSub(FMul(e2(n), e2(n + 1)), FMul(e3(n), e4(n + 1)))
      oddL(n) == FSub(FMul(e3(n), e4(n + 1)), FMul(e1(n + 1), e2(n + 1)))
      evenU(n) == FSub(FMul(e2(n), e3(n)), FMul(e4(n), e1(n)))
      evenM(n) == FSub(FMul(e1(n), e1(n + 1)), FMul(e3(n), e3(n + 1)))
      evenL(n) == FSub(FMul(e3(n), e4(n + 1)), FMul(e1(n + 1), e2(n + 1)))
  IN [upper_diagonal_ |-> Row(cm.upper_diagonal_, 0, oddU, evenU, 0),
      main_diagonal_ |->
        Row(cm.main_diagonal_, e1(0), oddM, evenM, FSub(e2(back), FMul(R_sfc, e4(back)))),
      lower_diagonal_ |->
        Row(cm.lower_diagonal_, FNeg(e2(0)), oddL, evenL,
            FSub(e1(back), FMul(R_sfc, e3(back))))]

MatrixLog(nl, sp, cm) ==
  LET ms == MatrixSize(nl)
      rows == Len(cm.main_diagonal_)
      reads == MatrixReadIndices(ms, Len(sp["e1"]))
      writes == MatrixWriteIndices(ms, rows)
  IN [layer_reads |-> reads,
      writes |-> writes,
      row_writes |-> [n \in 0..(ms - 1) |-> MatrixRowWrites(ms, rows, n)],
      out_of_bounds |->
        \/ reads \ (0..(Len(sp["e1"]) - 1)) # {}
        \/ writes \ (0..(rows - 1)) # {}]

AssembleTridiagonalMatrix ==
  /\ pc = "AssembleTridiagonalMatrix"
  /\ LET log == MatrixLog(number_of_layers, solution_parameters, coeffcient_matrix)
     IN \E o \in Outcomes(log.out_of_bounds) :
          /\ assembly_log' = [stage |-> "matrix", matrix |-> log]
          /\ IF o.crash
               THEN /\ pc' = "crashed"
                    /\ error' = "segfault"
                    /\ coeffcient_matrix' = coeffcient_matrix
               ELSE /\ pc' = "AssembleCoeffcientVector"
                    /\ error' = error
                    /\ coeffcient_matrix' =
                         AssembleMatrix(number_of_layers, solution_parameters,
                                        solver_parameters.Surface_Reflectivity,
                                        coeffcient_matrix, o.garbage)
  /\ UNCHANGED << solar_zenith_angles, grids, accumulated_radiator_state,
                  solution_parameters, source_terms, locals, coeffcient_vector,
                  radiation_field, i, i_dea, call, caller_inputs, first_call,
                  scaling_log, approximation_log >>

\* the indices at which the vector assembler reads e1..e4
VectorLayerReadIndices(matrix_size) ==
  OddRows(matrix_size) \cup {n + 1 : n \in EvenRows(matrix_size)}

\* the indices at which it reads C_upwelling and C_downwelling
VectorSourceReadIndices(matrix_size) ==
  {0} \cup OddRows(matrix_size) \cup EvenRows(matrix_size)

\* the indices at which it writes coeffcient_vector
VectorWriteIndices(matrix_size) ==
  {0} \cup OddRows(matrix_size) \cup EvenRows(matrix_size)

\* how many of its statements assign element n of a vector of length len
VectorRowWrites(matrix_size, len, n) ==
  IF n >= len THEN 0
  ELSE (IF n = 0 THEN 1 ELSE 0) + (IF n \in OddRows(matrix_size) THEN 1 ELSE 0)
       + (IF n \in EvenRows(matrix_size) THEN 1 ELSE 0)

\* coeffcient_vector after the call
AssembleVector(nl, sp, st, f_0, cv, gv) ==
  LET ms == MatrixSize(nl)
      e1(n) == At0(sp["e1"], n, gv)
      e2(n) == At0(sp["e2"], n, gv)
      e3(n) == At0(sp["e3"], n, gv)
      e4(n) == At0(sp["e4"], n, gv)
      C_up(n) == At0(st["C_upwelling"], n, gv)
      C_down(n) == At0(st["C_downwelling"], n, gv)
  IN [r \in 1..Len(cv) |->
        LET n == r - 1
        IN IF n \in EvenRows(ms)
             THEN FAdd(FMul(e2(n + 1), FSub(C_up(0), C_up(n))),
                       FMul(e4(n + 1), FSub(C_down(0), C_down(n))))
           ELSE IF n \in OddRows(ms)
             THEN FAdd(FMul(e3(n), FSub(C_up(0), C_up(n))),
                       FMul(e1(n), FSub(C_down(n), C_down(0))))
           ELSE IF n = 0 THEN FSub(f_0, C_down(0))
           ELSE cv[r]]

VectorLog(nl, sp, st, cv) ==
  LET ms == MatrixSize(nl)
      layer_reads == VectorLayerReadIndices(ms)
      source_reads == VectorSourceReadIndices(ms)
      writes == VectorWriteIndices(ms)
  IN [layer_reads |-> layer_reads,
      source_reads |-> source_reads,
      writes |-> writes,
      row_writes |-> [n \in 0..(ms - 1) |-> VectorRowWrites(ms, Len(cv), n)],
      out_of_bounds |->
        \/ layer_reads \ (0..(Len(sp["e1"]) - 1)) # {}
        \/ source_reads \ (0..(Len(st["C_upwelling"]) - 1)) # {}
        \/ writes \ (0..(Len(cv) - 1)) # {}]

AssembleCoeffcientVector ==
  /\ pc = "AssembleCoeffcientVector"
  /\ LET log == VectorLog(number_of_layers, solution_parameters, source_terms,
                          coeffcient_vector)
     IN \E o \in Outcomes(log.out_of_bounds) :
          /\ assembly_log' = [stage |-> "vector", matrix |-> assembly_log.matrix,
                              vector |-> log]
          /\ IF o.crash
               THEN /\ pc' = "crashed"
                    /\ error' = "segfault"
                    /\ coeffcient_vector' = coeffcient_vector
               ELSE /\ pc' = "LinearSolve"
                    /\ error' = error
                    /\ coeffcient_vector' =
                         AssembleVector(number_of_layers, solution_parameters,
                                        source_terms, solver_parameters.source_flux,
                                        coeffcient_vector, o.garbage)
  /\ UNCHANGED << solar_zenith_angles, grids, accumulated_radiator_state,
                  solution_parameters, source_terms, locals, coeffcient_matrix,
                  radiation_field, i, i_dea, call, caller_inputs, first_call,
                  scaling_log, approximation_log >>

(***************************************************************************)
(* The rest of Solve: the linear solve and ComputeRadiationField           *)
(***************************************************************************)
\* tuvx::Solve<T>(coeffcient_matrix, coeffcient_vector): the solver is defined in
\* linear_algebra.hpp; ComputeRadiationField reads nothing it leaves, and here it
\* leaves the system as assembled
LinearSolve ==
  /\ pc = "LinearSolve"
  /\ pc' = "ComputeRadiationField"
  /\ UNCHANGED << solar_zenith_angles, grids, accumulated_radiator_state,
                  solution_parameters, source_terms, locals, coeffcient_matrix,
                  coeffcient_vector, radiation_field, i, i_dea, call, error,
                  caller_inputs, first_call, scaling_log, approximation_log,
                  assembly_log >>

\* for (auto& elem : array) elem = offset++
SequentialFill(array, offset) == [k \in 1..Len(array) |-> K(offset + k - 1)]

ComputeRadiationField ==
  /\ pc = "ComputeRadiationField"
  /\ radiation_field' =
       [key \in FieldKeys |-> SequentialFill(radiation_field[key], FieldOffsets[key])]
  /\ pc' = "returned"
  /\ UNCHANGED << solar_zenith_angles, grids, accumulated_radiator_state,
                  solution_parameters, source_terms, locals, coeffcient_matrix,
                  coeffcient_vector, i, i_dea, call, error, caller_inputs, first_call,
                  scaling_log, approximation_log, assembly_log >>

\* the caller keeps what the first call left and calls Solve again with the
\* same arguments
SolveAgain ==
  /\ pc = "returned"
  /\ call = 1
  /\ first_call' =
       [returned |-> TRUE,
        accumulated_radiator_state |-> accumulated_radiator_state,
        solution_parameters |-> solution_parameters,
        source_terms |-> source_terms,
        radiation_field |-> radiation_field]
  /\ call' = 2
  /\ pc' = "Solve"
  /\ UNCHANGED << solar_zenith_angles, grids, accumulated_radiator_state,
                  solution_parameters, source_terms, locals, coeffcient_matrix,
                  coeffcient_vector, radiation_field, i, i_dea, error, caller_inputs,
                  scaling_log, approximation_log, assembly_log >>

Next ==
  \/ SolveBegin
  \/ InitializeVariablesBegin
  \/ DeltaScaling
  \/ SourceTerms
  \/ DeltaEddingtonApproximation
  \/ AssembleTridiagonalMatrix
  \/ AssembleCoeffcientVector
  \/ LinearSolve
  \/ ComputeRadiationField
  \/ SolveAgain

Spec == Init /\ [][Next]_vars

(***************************************************************************)
(* The two stages between delta scaling and assembly, DeltaEddington-      *)
(* Approximation and the source-term loop of InitializeVariables, run in   *)
(* any order and interleaving, from the state delta scaling leaves.        *)
(***************************************************************************)
RECURSIVE ApproximationFrom(_, _, _)
\* iterations k .. number_of_columns of DeltaEddingtonApproximation
ApproximationFrom(m, k, sza) ==
  IF k > Len(sza) THEN m
  ELSE ApproximationFrom(ApproximationIteration(m, k, sza[k]), k + 1, sza)

RECURSIVE SourceTermsFrom(_, _, _)
\* iterations k .. number_of_columns of the source-term loop
SourceTermsFrom(m, k, sza) ==
  IF k > Len(sza) THEN m
  ELSE SourceTermsFrom(SourceTermIteration(m, k, sza[k]), k + 1, sza)

InitOrder ==
  \E nc \in 1..MaxColumns, nl \in 1..MaxLayers, prior \in PriorVals :
    \E cols \in [1..nc -> ColumnInputs] :
      LET scaled == DeltaScalingFrom(RadiatorOf(cols), 0, 1)
      IN /\ solar_zenith_angles = [k \in 1..nc |-> cols[k].sza]
         /\ grids = [vertical_columns |-> nc, wavelength_columns |-> 1, layers |-> nl]
         /\ accumulated_radiator_state = scaled
         /\ caller_inputs =
              [accumulated_radiator_state |-> scaled,
               solution_parameters |-> InitialParameters(nc, nl, prior),
               source_terms |-> InitialSourceTerms(nc, prior),
               radiation_field |-> InitialField(nc, nl)]
         /\ solution_parameters = InitialParameters(nc, nl, prior)
         /\ source_terms = InitialSourceTerms(nc, prior)
         /\ locals = NoLocals
         /\ coeffcient_matrix = NoMatrix
         /\ coeffcient_vector = << >>
         /\ radiation_field = InitialField(nc, nl)
         /\ pc = "either_order"
         /\ i = 1
         /\ i_dea = 1
         /\ call = 1
         /\ error = "none"
         /\ first_call = NoFirstCall
         /\ scaling_log = NoScalingLog
         /\ approximation_log = NoApproximationLog
         /\ assembly_log = NoAssemblyLog

OrderSourceTerms ==
  /\ pc = "either_order"
  /\ i <= number_of_columns
  /\ LET m == SourceTermIteration(
                SourceView(accumulated_radiator_state, solution_parameters,
                           source_terms, locals),
                i, solar_zenith_angles[i])
     IN /\ solution_parameters' = m.sp
        /\ source_terms' = m.st
        /\ locals' = m.lc
  /\ i' = i + 1
  /\ UNCHANGED << solar_zenith_angles, grids, accumulated_radiator_state,
                  coeffcient_matrix, coeffcient_vector, radiation_field, pc, i_dea,
                  call, error, caller_inputs, first_call, scaling_log,
                  approximation_log, assembly_log >>

OrderApproximation ==
  /\ pc = "either_order"
  /\ i_dea <= number_of_columns
  /\ solution_parameters' =
       ApproximationIteration(
         ApproximationView(accumulated_radiator_state, solution_parameters),
         i_dea, solar_zenith_angles[i_dea]).sp
  /\ approximation_log' = [index |-> i_dea]
  /\ i_dea' = i_dea + 1
  /\ UNCHANGED << solar_zenith_angles, grids, accumulated_radiator_state, source_terms,
                  locals, coeffcient_matrix, coeffcient_vector, radiation_field, pc, i,
                  call, error, caller_inputs, first_call, scaling_log, assembly_log >>

NextOrder == OrderSourceTerms \/ OrderApproximation

SpecOrder == InitOrder /\ [][NextOrder]_vars

(***************************************************************************)
(* Properties                                                              *)
(***************************************************************************)
\* both assemblers have returned
AfterAssembly == pc = "LinearSolve"

\* C1: after assembly the three diagonals and the right-hand side have exactly
\* 2 * number_of_layers rows, and the upper-diagonal entry of the first row and
\* of the last row is zero.
C1_SystemHasTwoRowsPerLayer ==
  AfterAssembly =>
    /\ Len(coeffcient_matrix.lower_diagonal_) = 2 * number_of_layers
    /\ Len(coeffcient_matrix.main_diagonal_) = 2 * number_of_layers
    /\ Len(coeffcient_matrix.upper_diagonal_) = 2 * number_of_layers
    /\ Len(coeffcient_vector) = 2 * number_of_layers
    /\ coeffcient_matrix.upper_diagonal_[1] = 0
    /\ coeffcient_matrix.upper_diagonal_[2 * number_of_layers] = 0

\* C2: when the system has its 2 * number_of_layers rows, assembly assigns every
\* row of the diagonals and every row of the right-hand side exactly once, the
\* last row of the right-hand side included.
C2_EveryRowAssignedOnce ==
  (/\ AfterAssembly
   /\ Len(coeffcient_matrix.main_diagonal_) = 2 * number_of_layers
   /\ Len(coeffcient_vector) = 2 * number_of_layers) =>
    \A n \in 0..(2 * number_of_layers - 1) :
      /\ assembly_log.matrix.row_writes[n] = 1
      /\ assembly_log.vector.row_writes[n] = 1

\* the columns of the batch were supplied with the same inputs
IdenticalColumns ==
  \A c \in 1..number_of_columns :
    /\ solar_zenith_angles[c] = solar_zenith_angles[1]
    /\ \A member \in DOMAIN caller_inputs.accumulated_radiator_state :
         caller_inputs.accumulated_radiator_state[member][c]
           = caller_inputs.accumulated_radiator_state[member][1]

\* the entries of an output array that belong to column c
FieldColumn(array, c) ==
  [b \in 1..(number_of_layers + 1) |-> array[(c - 1) * (number_of_layers + 1) + b]]

\* everything a call leaves for column c
ColumnValues(c) ==
  [optical |->
     [member \in DOMAIN accumulated_radiator_state |->
        accumulated_radiator_state[member][c]],
   parameters |-> [key \in ParameterKeys |-> solution_parameters[key][c]],
   sources |-> [key \in SourceKeys |-> source_terms[key][c]],
   field |-> [key \in FieldKeys |-> FieldColumn(radiation_field[key], c)]]

\* C3: when Solve returns for a batch of identical columns, every column's
\* scaled properties, derived parameters, source terms and six outputs equal
\* those of every other column.
C3_IdenticalColumnsAgree ==
  (pc = "returned" /\ IdenticalColumns) =>
    \A c \in 1..number_of_columns : ColumnValues(c) = ColumnValues(1)

\* C4: the second call of Solve with the same arguments starts from the optical
\* properties the caller supplied, and returns the radiation field, derived
\* parameters and source terms the first call returned.
C4_SecondCallRepeatsFirst ==
  /\ (call = 2 /\ pc = "Solve") =>
       accumulated_radiator_state = caller_inputs.accumulated_radiator_state
  /\ (call = 2 /\ pc = "returned") =>
       /\ radiation_field = first_call.radiation_field
       /\ solution_parameters = first_call.solution_parameters
       /\ source_terms = first_call.source_terms

\* the precondition of Solve is violated
DimensionMismatch ==
  \/ grids.vertical_columns # Len(solar_zenith_angles)
  \/ grids.wavelength_columns # 1

\* no stage has written anything
NothingWritten ==
  /\ accumulated_radiator_state = caller_inputs.accumulated_radiator_state
  /\ solution_parameters = caller_inputs.solution_parameters
  /\ source_terms = caller_inputs.source_terms
  /\ radiation_field = caller_inputs.radiation_field
  /\ coeffcient_matrix = NoMatrix
  /\ coeffcient_vector = << >>
  /\ locals = NoLocals

\* C5: on a dimension mismatch Solve is either not yet past its checks or has
\* failed on an assert, and in both cases no optical property, solver variable,
\* tridiagonal entry or radiation-field entry has been written.
C5_MismatchFailsBeforeAnyWrite ==
  DimensionMismatch =>
    /\ pc \in {"Solve", "aborted"}
    /\ pc = "aborted" => error = "assertion"
    /\ NothingWritten

C5_Witness == DimensionMismatch /\ pc = "aborted" /\ error = "assertion"

\* the column the source-term loop has just processed in the first call, or 0
SourceColumnDone ==
  IF call = 1 /\ i > 1 /\ (pc = "source_terms" \/ (pc = "DeltaEddingtonApproximation" /\ i_dea = 1))
    THEN i - 1
    ELSE 0

\* C6: when the source-term loop has processed a column whose mu_0 or whose
\* denominator lambda^2 - 1/mu_0^2 is zero, NumericalInstability has been
\* signalled and the column's C_upwelling and C_downwelling are untouched.
C6_InstabilitySignalled ==
  (/\ SourceColumnDone > 0
   /\ (locals.mu_0 = 0 \/ locals.denominator_term = 0)) =>
    /\ error = "NumericalInstability"
    /\ \A key \in SourceKeys :
         source_terms[key][SourceColumnDone]
           = caller_inputs.source_terms[key][SourceColumnDone]

\* C7: an iteration of delta scaling computes f as the square of the unscaled
\* g, assigns each of omega, g and tau exactly once, and no assignment reads a
\* sibling the iteration has already overwritten.
C7_ScalingUsesPreUpdateValues ==
  scaling_log.index > 0 =>
    /\ scaling_log.f = FMul(scaling_log.before.g, scaling_log.before.g)
    /\ \A name \in DOMAIN scaling_log.count : scaling_log.count[name] = 1
    /\ ~scaling_log.stale

\* C8: an iteration of DeltaEddingtonApproximation for layer i leaves lambda[i]
\* = sqrt(gamma1[i]^2 - gamma2[i]^2) and Gamma[i] = gamma2[i] / (gamma1[i] +
\* lambda[i]) in storage distinct from each other and from mu, and changes no
\* element of any array other than element i.
C8_LambdaGammaMuDistinct ==
  [][DeltaEddingtonApproximation =>
       LET k == i_dea
           gamma1 == solution_parameters'["gamma1"][k]
           gamma2 == solution_parameters'["gamma2"][k]
           lambda == solution_parameters'[LambdaKey][k]
       IN /\ Cardinality({MuKey, LambdaKey, GammaKey}) = 3
          /\ lambda = FSqrt(FSub(FMul(gamma1, gamma1), FMul(gamma2, gamma2)))
          /\ solution_parameters'[GammaKey][k] = FDiv(gamma2, FAdd(gamma1, lambda))
          /\ \A key \in ParameterKeys :
               \A j \in (1..number_of_columns) \ {k} :
                 solution_parameters'[key][j] = solution_parameters[key][j]]_vars

\* both stages have processed every column
OrderDone ==
  pc = "either_order" /\ i > number_of_columns /\ i_dea > number_of_columns

\* the memory the two stages start from
OrderStart ==
  [tau |-> caller_inputs.accumulated_radiator_state.optical_depth_,
   omega |-> caller_inputs.accumulated_radiator_state.single_scattering_albedo_,
   sp |-> caller_inputs.solution_parameters,
   st |-> caller_inputs.source_terms,
   lc |-> NoLocals]

\* what DeltaEddingtonApproximation leaves when it runs alone
ApproximationAlone ==
  ApproximationFrom(
    ApproximationView(caller_inputs.accumulated_radiator_state,
                      caller_inputs.solution_parameters),
    1, solar_zenith_angles).sp

\* the source terms when DeltaEddingtonApproximation runs first
SourceTermsAfterApproximation ==
  SourceTermsFrom([OrderStart EXCEPT !.sp = ApproximationAlone], 1,
                  solar_zenith_angles).st

\* the keys DeltaEddingtonApproximation assigns
ApproximationKeys == {"gamma1", "gamma2", "gamma3", MuKey, LambdaKey, GammaKey}

\* C9 as stated: in every order and interleaving of the two stages the gamma and
\* lambda coefficients and the C_upwelling and C_downwelling handed on are the
\* same.
C9_StagesOrderIndependent ==
  OrderDone =>
    /\ \A key \in ApproximationKeys : solution_parameters[key] = ApproximationAlone[key]
    /\ source_terms = SourceTermsAfterApproximation

\* C9 as amended: in every order and interleaving of the two stages
\* DeltaEddingtonApproximation leaves the coefficients it leaves when it runs
\* alone (the source-term loop writes nothing it reads or assigns).
C9_ApproximationUnaffectedByOrder ==
  OrderDone =>
    \A key \in ApproximationKeys : solution_parameters[key] = ApproximationAlone[key]

\* both stages are done and the source terms are not those of the order
\* approximation-first: some source-term iteration ran before the approximation
C9_Witness == OrderDone /\ source_terms # SourceTermsAfterApproximation

\* C10: every index the assemblers use to read e1..e4, C_upwelling and
\* C_downwelling lies in 0 .. number_of_layers - 1, every index they use to
\* write lies in 0 .. 2 * number_of_layers - 1, and the loop bounds
\* matrix_size - 1 and matrix_size - 2 are not negative.
C10_AssemblyIndicesInRange ==
  LET layers == 0..(number_of_layers - 1)
      rows == 0..(2 * number_of_layers - 1)
  IN /\ assembly_log.stage \in {"matrix", "vector"} =>
          /\ assembly_log.matrix.layer_reads \subseteq layers
          /\ assembly_log.matrix.writes \subseteq rows
     /\ assembly_log.stage = "vector" =>
          /\ assembly_log.vector.layer_reads \subseteq layers
          /\ assembly_log.vector.source_reads \subseteq layers
          /\ assembly_log.vector.writes \subseteq rows
     /\ MatrixSize(number_of_layers) - 2 >= 0
====
